---- MODULE Spec2Model ----
(***************************************************************************)
(* GHZ generation from two Bell-diagonal states (BDS):                     *)
(* src/example/qutip_integration.py (bell_dm, noisy_meas, merge,           *)
(* gate_teleport).                                                         *)
(*                                                                         *)
(* Numbers.  A fidelity is the rational fid/FidDen, a BDS diagonal element *)
(* is elem/ProbDen.  The entries of the 2x2 operators of noisy_meas are    *)
(* integers in units of 1/FidDen, a trace is an integer in units of        *)
(* 1/TrUnit (TrUnit = FidDen^2, so that cnot_fid**2 is exact).             *)
(*                                                                         *)
(* Operators (QuTiP Qobj).  bell_dm's result is kept as its populations on *)
(* the four Bell states.  Inside merge and gate_teleport a Qobj is kept as *)
(* its tensor frame: q, one label per qubit slot ("I" for an identity      *)
(* factor, else the name of the register held there); tr, the trace of the *)
(* frame (of the state, or of the identity a gate acts on); ops, the       *)
(* elementary gates it is made of (for a gate, on slot numbers counted     *)
(* from 0 as in the source) or that were applied to it (for a state, on    *)
(* register names).  A product, a sum or a measurement of operators of     *)
(* different width (number of qubits, i.e. matrix shape) raises, as every  *)
(* matrix product does; QuTiP also compares the grouping of the factors    *)
(* (identity(4) is one factor of dimension 4), which can only reject more, *)
(* and measure_povm's own validation of its operators is left out too.     *)
(*                                                                         *)
(* Spec is the four functions as they are called.  SpecBlocks is the body  *)
(* of merge and of gate_teleport past the bell_dm calls, started at any    *)
(* block boundary.                                                         *)
(*                                                                         *)
(* SpecRing is the forwarding table ring_network installs                  *)
(* (src/mpi_tests/sequential_ring.py) and a packet that follows it: the    *)
(* rule of each router it visits names its next router.                    *)
(***************************************************************************)
EXTENDS Integers, Sequences, FiniteSets, TLC

FidDen == 2
ProbDen == 2
TrUnit == FidDen * FidDen

VARIABLES fn, args, pc, ret, at, st, res, trail, handed,
          ring_size, forwarding, packet

callvars == <<fn, args, pc, ret, at, st, res, trail, handed>>
ringvars == <<ring_size, forwarding, packet>>
vars == <<callvars, ringvars>>

(***************************************************************************)
(* Inputs                                                                  *)
(***************************************************************************)
Fids == 0..FidDen
AnyFids == (0 - 1)..(FidDen + 1)
ProbVecs == [1..4 -> 0..ProbDen]
MergeVecs == {v \in ProbVecs : v[2] = 0 /\ v[4] = 0}
Perms == {p \in [1..4 -> 0..3] : \A i, j \in 1..4 : p[i] = p[j] => i = j}
IdentityOrder == [i \in 1..4 |-> i - 1]
NoArgs == [state1 |-> [i \in 1..4 |-> 0], state2 |-> [i \in 1..4 |-> 0],
           elem_order |-> IdentityOrder, cnot_fid |-> 0, meas_fid |-> 0]

(***************************************************************************)
(* Python outcomes                                                         *)
(***************************************************************************)
Raised(exc, why) == [kind |-> "raised", exc |-> exc, why |-> why]
None == [kind |-> "none"]
IsErr(o) == o.kind = "raised"

RECURSIVE SumVec(_, _)
SumVec(v, n) == IF n = 0 THEN 0 ELSE v[n] + SumVec(v, n - 1)

(***************************************************************************)
(* bell_dm                                                                 *)
(***************************************************************************)
\* format(idx, 'b'): the binary digits of idx, most significant first, no padding
RECURSIVE FormatB(_)
FormatB(idx) == IF idx < 2 THEN <<idx>> ELSE Append(FormatB(idx \div 2), idx % 2)

\* qutip.bell_state(name): '00' Phi+, '01' Phi-, '10' Psi+, '11' Psi-; any other name fails
BellNames == {<<0, 0>>, <<0, 1>>, <<1, 0>>, <<1, 1>>}
bell_state(idx_str) ==
    IF idx_str \in BellNames
    THEN [kind |-> "ket", bell |-> 2 * idx_str[1] + idx_str[2]]
    ELSE Raised("ValueError", "not the name of a Bell state")

\* the loop of bell_dm from its i-th pair on; acc is bell_dm so far (populations)
RECURSIVE bell_dm_loop(_, _, _, _)
bell_dm_loop(state, elem_order, i, acc) ==
    IF i > Len(state) \/ i > Len(elem_order) THEN [kind |-> "bds", pop |-> acc]
    ELSE LET idx_str == FormatB(elem_order[i])
             ket == bell_state(idx_str)
         IN IF IsErr(ket) THEN ket
            ELSE bell_dm_loop(state, elem_order, i + 1,
                     [acc EXCEPT ![ket.bell] = acc[ket.bell] + state[i]])

bell_dm(state, elem_order) ==
    bell_dm_loop(state, elem_order, 1, [b \in 0..3 |-> 0])

\* a call of bell_dm with the positional arguments a: bell_dm takes two
call_bell_dm(a) ==
    IF Len(a) # 2 THEN Raised("TypeError", "missing argument") ELSE bell_dm(a[1], a[2])

(***************************************************************************)
(* noisy_meas                                                              *)
(***************************************************************************)
basis(i) == [r \in 0..1 |-> IF r = i THEN 1 ELSE 0]
Outer(k, b) == [r \in 0..1 |-> [c \in 0..1 |-> k[r] * b[c]]]
MatScale(s, m) == [r \in 0..1 |-> [c \in 0..1 |-> s * m[r][c]]]
MatAdd(m, n) == [r \in 0..1 |-> [c \in 0..1 |-> m[r][c] + n[r][c]]]
MatMul(m, n) == [r \in 0..1 |-> [c \in 0..1 |-> m[r][0] * n[0][c] + m[r][1] * n[1][c]]]
MatTr(m) == m[0][0] + m[1][1]

\* noisy_meas with the wrong projector's weight not complemented
noisy_meas_uncomplemented(fid) ==
    LET povm_0 == MatAdd(MatScale(fid, Outer(basis(0), basis(0))),
                         MatScale(FidDen - fid, Outer(basis(1), basis(1))))
        povm_1 == MatAdd(MatScale(fid, Outer(basis(1), basis(1))),
                         MatScale(fid, Outer(basis(0), basis(0))))
    IN <<povm_0, povm_1>>

noisy_meas(fid) ==
    LET povm_0 == MatAdd(MatScale(fid, Outer(basis(0), basis(0))),
                         MatScale(FidDen - fid, Outer(basis(1), basis(1))))
        povm_1 == MatAdd(MatScale(fid, Outer(basis(1), basis(1))),
                         MatScale(FidDen - fid, Outer(basis(0), basis(0))))
    IN <<povm_0, povm_1>>

(***************************************************************************)
(* Tensor frames of the operators inside merge and gate_teleport           *)
(***************************************************************************)
Zero2 == [r \in 0..1 |-> [c \in 0..1 |-> 0]]
Gate1(g) == [g |-> g, a |-> 0, b |-> 0 - 1, m |-> Zero2]
Gate2(g) == [g |-> g, a |-> 0, b |-> 1, m |-> Zero2]
Applied(g, a, b, r) == [g |-> g, a |-> a, b |-> b, r |-> r]

RECURSIVE Log2(_)
Log2(N) == IF N <= 1 THEN 0 ELSE 1 + Log2(N \div 2)

Width(o) == Len(o.q)
ShapeError == Raised("TypeError", "incompatible shapes")
IndexError == Raised("IndexError", "ptrace selection out of range")

\* qutip / qutip_qip constructors
identity(N) == [kind |-> "gate", q |-> [i \in 1..Log2(N) |-> "I"], tr |-> N * TrUnit, ops |-> << >>]
cnot == [kind |-> "gate", q |-> <<"I", "I">>, tr |-> 4 * TrUnit, ops |-> <<Gate2("CX")>>]
swap == [kind |-> "gate", q |-> <<"I", "I">>, tr |-> 4 * TrUnit, ops |-> <<Gate2("SWAP")>>]
sigmax == [kind |-> "gate", q |-> <<"I">>, tr |-> 2 * TrUnit, ops |-> <<Gate1("X")>>]
sigmaz == [kind |-> "gate", q |-> <<"I">>, tr |-> 2 * TrUnit, ops |-> <<Gate1("Z")>>]
hadamard_transform == [kind |-> "gate", q |-> <<"I">>, tr |-> 2 * TrUnit, ops |-> <<Gate1("H")>>]
\* a 2x2 operator returned by noisy_meas, as a factor of a tensor product
Povm(mat) == [kind |-> "gate", q |-> <<"I">>, tr |-> 2 * TrUnit,
              ops |-> <<[g |-> "E", a |-> 0, b |-> 0 - 1, m |-> mat]>>]
\* a normalised state of the registers named in q
StateOf(q) == [kind |-> "state", q |-> q, tr |-> TrUnit, ops |-> << >>]

ShiftOps(ops, k) ==
    [i \in 1..Len(ops) |-> [ops[i] EXCEPT !.a = @ + k, !.b = IF @ < 0 THEN @ ELSE @ + k]]

\* tensor(a, b)
Tensor2(a, b) ==
    IF IsErr(a) THEN a ELSE IF IsErr(b) THEN b
    ELSE [kind |-> IF a.kind = "gate" /\ b.kind = "gate" THEN "gate" ELSE "state",
          q |-> a.q \o b.q,
          tr |-> (a.tr * b.tr) \div TrUnit,
          ops |-> a.ops \o (IF b.kind = "gate" THEN ShiftOps(b.ops, Width(a)) ELSE b.ops)]

\* tensor(fs[1], ..., fs[n])
RECURSIVE Tensor(_)
Tensor(fs) == IF Len(fs) = 1 THEN fs[1]
              ELSE Tensor2(Tensor(SubSeq(fs, 1, Len(fs) - 1)), fs[Len(fs)])

\* (n/d) * a  and  a / d
Scale(n, d, a) == IF IsErr(a) THEN a ELSE [a EXCEPT !.tr = (@ * n) \div d]

\* a * b for two gates: b acts first
GMul(a, b) ==
    IF IsErr(a) THEN a ELSE IF IsErr(b) THEN b
    ELSE IF Width(a) # Width(b) THEN ShapeError
    ELSE [a EXCEPT !.ops = b.ops \o a.ops]

SwapSlots(q, i, j) ==
    [k \in 1..Len(q) |-> IF k = i + 1 THEN q[j + 1] ELSE IF k = j + 1 THEN q[i + 1] ELSE q[k]]

RECURSIVE ApplyOps(_, _)
ApplyOps(gops, s) ==
    IF gops = << >> THEN s
    ELSE LET o == Head(gops)
         IN ApplyOps(Tail(gops),
                IF o.g = "SWAP" THEN [s EXCEPT !.q = SwapSlots(s.q, o.a, o.b)]
                ELSE [s EXCEPT !.ops = Append(@,
                         Applied(o.g, s.q[o.a + 1],
                                 IF o.b < 0 THEN "" ELSE s.q[o.b + 1], 0 - 1))])

\* g * s * g.dag()
Conj(g, s) ==
    IF IsErr(g) THEN g ELSE IF IsErr(s) THEN s
    ELSE IF Width(g) # Width(s) THEN ShapeError
    ELSE ApplyOps(g.ops, s)

JoinSlot(x, y) == IF x = y THEN x ELSE IF x = "I" THEN y ELSE IF y = "I" THEN x ELSE "?"

\* a + b
Add(a, b) ==
    IF IsErr(a) THEN a ELSE IF IsErr(b) THEN b
    ELSE IF Width(a) # Width(b) THEN ShapeError
    ELSE [kind |-> "state",
          q |-> [i \in 1..Width(a) |-> JoinSlot(a.q[i], b.q[i])],
          tr |-> a.tr + b.tr,
          ops |-> IF a.ops = b.ops THEN a.ops ELSE << >>]

\* s.ptrace(sel): keeps the slots sel (counted from 0)
Ptrace(s, sel) ==
    IF IsErr(s) THEN s
    ELSE IF \E i \in 1..Len(sel) : sel[i] >= Width(s) THEN IndexError
    ELSE [s EXCEPT !.q = [i \in 1..Len(sel) |-> s.q[sel[i] + 1]]]

\* measure_povm(s, povms) when it yields the outcome r: the collapsed, renormalised state
measure_povm(s, povms, r) ==
    IF IsErr(s) THEN s
    ELSE IF \E i \in 1..Len(povms) : Width(povms[i]) # Width(s) THEN ShapeError
    ELSE [s EXCEPT !.tr = TrUnit,
                   !.ops = Append(@, Applied("meas", s.q[povms[r + 1].ops[1].a + 1], "", r))]

(***************************************************************************)
(* State: fn, args the call; pc the position in it; st the bound locals; *)
(* res the measurement outcomes; ret, at the result or exception and its   *)
(* line; trail the protocol steps passed; handed the state given to the    *)
(* latest measure_povm call.                                               *)
(***************************************************************************)
NoQ == [kind |-> "none"]
NoLocals == [bell_dm_1 |-> NoQ, bell_dm_2 |-> NoQ, init_state |-> NoQ,
             post_cnot_state |-> NoQ, post_meas_state |-> NoQ,
             post_meas1_state |-> NoQ, post_meas2_state |-> NoQ,
             final_state |-> NoQ]
NoRes == [res |-> 0 - 1, res1 |-> 0 - 1, res2 |-> 0 - 1, res3 |-> 0 - 1]

\* the frame of a BDS operator on the registers a, b (what bell_dm returns)
BdsFrame(a, b) == StateOf(<<a, b>>)

Last(seq) == seq[Len(seq)]

\* a packet: its destination and the routers it has visited, the last being where it is
NoPacket == [dst |-> << >>, path |-> << >>]
\* no ring is built while the functions of qutip_integration.py are examined
NoRing == ring_size = 0 /\ forwarding = << >> /\ packet = NoPacket

Init ==
    /\ NoRing
    /\ pc = "start"
    /\ ret = None
    /\ at = 0
    /\ st = NoLocals
    /\ res = NoRes
    /\ trail = << >>
    /\ handed = NoQ
    /\ \/ /\ fn = "bell_dm"
          /\ \E s \in ProbVecs, o \in Perms :
                args = [NoArgs EXCEPT !.state1 = s, !.elem_order = o]
       \/ /\ fn = "noisy_meas"
          /\ \E f \in AnyFids : args = [NoArgs EXCEPT !.meas_fid = f]
       \/ /\ fn \in {"merge", "gate_teleport"}
          /\ \E s1, s2 \in MergeVecs, cf, mf \in AnyFids :
                args = [NoArgs EXCEPT !.state1 = s1, !.state2 = s2,
                                      !.cnot_fid = cf, !.meas_fid = mf]

Finish(value, line) ==
    /\ pc' = IF IsErr(value) THEN "raised" ELSE "returned"
    /\ ret' = value
    /\ at' = line
    /\ UNCHANGED <<fn, args, st, res, trail, handed, ringvars>>

Call_bell_dm ==
    /\ pc = "start" /\ fn = "bell_dm"
    /\ LET r == call_bell_dm(<<args.state1, args.elem_order>>)
       IN Finish(r, IF IsErr(r) THEN 31 ELSE 34)

Call_noisy_meas ==
    /\ pc = "start" /\ fn = "noisy_meas"
    /\ Finish([kind |-> "povms", povms |-> noisy_meas(args.meas_fid)], 52)

\* lines 72-73 and 121-122: bell_dm(state1), bell_dm(state2)
BindBds(a1, b1, a2, b2, line) ==
    LET bell_dm_1 == call_bell_dm(<<args.state1>>)
        bell_dm_2 == call_bell_dm(<<args.state2>>)
    IN IF IsErr(bell_dm_1) THEN Finish(bell_dm_1, line)
       ELSE IF IsErr(bell_dm_2) THEN Finish(bell_dm_2, line + 1)
       ELSE /\ pc' = "body"
            /\ st' = [st EXCEPT !.bell_dm_1 = BdsFrame(a1, b1), !.bell_dm_2 = BdsFrame(a2, b2)]
            /\ UNCHANGED <<fn, args, ret, at, res, trail, handed, ringvars>>

Call_merge ==
    /\ pc = "start" /\ fn = "merge"
    /\ BindBds("q0", "q1", "q2", "q3", 72)

Call_gate_teleport ==
    /\ pc = "start" /\ fn = "gate_teleport"
    /\ BindBds("A1", "B1", "A2", "B2", 121)

(***************************************************************************)
(* The statements of a function body, block by block.  c lists the values  *)
(* a block computes with their lines, in evaluation order: the first that  *)
(* raised ends the call.                                                   *)
(***************************************************************************)
FirstErr(c) == CHOOSE i \in 1..Len(c) : IsErr(c[i][1]) /\ \A j \in 1..(i - 1) : ~IsErr(c[j][1])

Block(c, nextpc, reached, newst, newres) ==
    IF \E i \in 1..Len(c) : IsErr(c[i][1])
    THEN /\ pc' = "raised"
         /\ ret' = c[FirstErr(c)][1]
         /\ at' = c[FirstErr(c)][2]
         /\ UNCHANGED <<fn, args, st, res, trail, ringvars>>
    ELSE /\ pc' = nextpc
         /\ st' = newst
         /\ res' = newres
         /\ trail' = Append(trail, reached)
         /\ IF nextpc = "returned"
            THEN ret' = c[Len(c)][1] /\ at' = c[Len(c)][2]
            ELSE UNCHANGED <<ret, at>>
         /\ UNCHANGED <<fn, args, ringvars>>

\* povm0, povm1 = noisy_meas(meas_fid), each lifted by tensor(left, povm, right)
Lifted(left, right) ==
    LET povms == noisy_meas(args.meas_fid)
    IN <<Tensor(<<left, Povm(povms[1]), right>>), Tensor(<<left, Povm(povms[2]), right>>)>>

(***************************************************************************)
(* merge, lines 74-99                                                      *)
(***************************************************************************)
\* line 74
Merge_init ==
    /\ fn = "merge" /\ pc = "body"
    /\ LET init_state == Tensor(<<st.bell_dm_1, st.bell_dm_2>>)
       IN Block(<< <<init_state, 74>> >>, "INIT", "INIT",
                [st EXCEPT !.init_state = init_state], res)
    /\ UNCHANGED handed

\* the branches of lines 80-81 with the two swaps of the failed branch in the other order
merge_cnot_branches_swaps_exchanged(init_state, cnot_fid) ==
    LET cnot_12 == Tensor(<<identity(2), cnot, identity(2)>>)
        swap_12 == Tensor(<<identity(2), swap, identity(2)>>)
        swap_23 == Tensor(<<identity(4), swap>>)
        done == Scale(cnot_fid, FidDen, Conj(cnot_12, init_state))
        failed == Scale(FidDen - cnot_fid, FidDen,
                     Conj(GMul(swap_12, swap_23),
                          Scale(1, 4, Tensor(<<Ptrace(init_state, <<0, 3>>), identity(4)>>))))
    IN <<done, failed>>

\* the two branches of the noisy CNOT of lines 80-81, weighted
merge_cnot_branches(init_state, cnot_fid) ==
    LET cnot_12 == Tensor(<<identity(2), cnot, identity(2)>>)
        swap_12 == Tensor(<<identity(2), swap, identity(2)>>)
        swap_23 == Tensor(<<identity(4), swap>>)
        done == Scale(cnot_fid, FidDen, Conj(cnot_12, init_state))
        failed == Scale(FidDen - cnot_fid, FidDen,
                     Conj(GMul(swap_23, swap_12),
                          Scale(1, 4, Tensor(<<Ptrace(init_state, <<0, 3>>), identity(4)>>))))
    IN <<done, failed>>

\* lines 77-81
Merge_cnot ==
    /\ fn = "merge" /\ pc = "INIT"
    /\ LET b == merge_cnot_branches(st.init_state, args.cnot_fid)
           post_cnot_state == Add(b[1], b[2])
       IN Block(<< <<b[1], 80>>, <<b[2], 81>>, <<post_cnot_state, 80>> >>,
                "CNOT_APPLIED", "CNOT_APPLIED",
                [st EXCEPT !.post_cnot_state = post_cnot_state], res)
    /\ UNCHANGED handed

\* lines 84-88
Merge_measure ==
    /\ fn = "merge" /\ pc = "CNOT_APPLIED"
    /\ \E r \in 0..1 :
          LET povms == Lifted(identity(2), identity(4))
              post_meas_state == measure_povm(st.post_cnot_state, povms, r)
          IN Block(<< <<post_meas_state, 88>> >>, "MEASURED", "MEASURED",
                   [st EXCEPT !.post_meas_state = post_meas_state],
                   [res EXCEPT !.res = r])
    /\ handed' = st.post_cnot_state

\* lines 91-99: the value of line 91 is dropped
merge_correct(post_meas_state, r) ==
    LET dropped == Ptrace(post_meas_state, <<0, 1, 2>>)
        x_gate == Tensor(<<sigmax, identity(4)>>)
        ghz_state == IF r = 0 THEN post_meas_state ELSE Conj(x_gate, post_meas_state)
    IN << <<dropped, 91>>, <<ghz_state, IF r = 0 THEN 99 ELSE 97>> >>

Merge_correct ==
    /\ fn = "merge" /\ pc = "MEASURED"
    /\ Block(merge_correct(st.post_meas_state, res.res), "returned", "CORRECTED", st, res)
    /\ UNCHANGED handed

(***************************************************************************)
(* gate_teleport, lines 124-233                                            *)
(***************************************************************************)
plus_dm == StateOf(<<"C">>)
zero_dm(name) == StateOf(<<name>>)
mixed_pair == Scale(1, 4, identity(4))

\* the scalars of lines 142 and 197, in the order of their terms, in units of 1/TrUnit
teleport_weights(cnot_fid) ==
    <<cnot_fid * cnot_fid, cnot_fid * FidDen, cnot_fid * FidDen,
      (FidDen - cnot_fid) * (FidDen - cnot_fid)>>

\* cnot_fid**2 * both + cnot_fid * (first + second) + (1-cnot_fid)**2 * none
teleport_mixture(cnot_fid, both, first, second, none) ==
    LET w == teleport_weights(cnot_fid)
    IN Add(Add(Scale(w[1], TrUnit, both),
               Add(Scale(w[2], TrUnit, first), Scale(w[3], TrUnit, second))),
           Scale(w[4], TrUnit, none))

\* the feedforward with the two outcomes exchanged
teleport_correct_exchanged(res_a, res_b, x_gate, z_gate, post_meas_state) ==
    IF res_a = 0 /\ res_b = 0 THEN post_meas_state
    ELSE IF res_a = 0 /\ res_b = 1 THEN Conj(x_gate, post_meas_state)
    ELSE IF res_a = 1 /\ res_b = 0 THEN Conj(z_gate, post_meas_state)
    ELSE Conj(GMul(z_gate, x_gate), post_meas_state)

\* the feedforward of lines 169-176 and 224-231
teleport_correct(res_a, res_b, x_gate, z_gate, post_meas_state) ==
    IF res_a = 0 /\ res_b = 0 THEN post_meas_state
    ELSE IF res_a = 1 /\ res_b = 0 THEN Conj(x_gate, post_meas_state)
    ELSE IF res_a = 0 /\ res_b = 1 THEN Conj(z_gate, post_meas_state)
    ELSE Conj(GMul(z_gate, x_gate), post_meas_state)

\* lines 124-131
G1_init ==
    /\ fn = "gate_teleport" /\ pc = "body"
    /\ LET init_state == Tensor(<<plus_dm, st.bell_dm_1, zero_dm("T1")>>)
       IN Block(<< <<init_state, 131>> >>, "INIT1", "INIT1",
                [st EXCEPT !.init_state = init_state], res)
    /\ UNCHANGED handed

\* lines 133-142
G1_cnot ==
    /\ fn = "gate_teleport" /\ pc = "INIT1"
    /\ LET init_state == st.init_state
           cnot_01 == Tensor(<<cnot, identity(4)>>)
           cnot_23 == Tensor(<<identity(4), cnot>>)
           cnot_01_23 == GMul(cnot_01, cnot_23)
           state_both_succ == Conj(cnot_01_23, init_state)
           state_01_succ == Tensor(<<Ptrace(Conj(cnot_01, init_state), <<0, 1>>), mixed_pair>>)
           state_23_succ == Tensor(<<mixed_pair, Ptrace(Conj(cnot_23, init_state), <<2, 3>>)>>)
           state_both_fail == Tensor(<<mixed_pair, mixed_pair>>)
           post_cnot_state == teleport_mixture(args.cnot_fid, state_both_succ, state_01_succ,
                                               state_23_succ, state_both_fail)
       IN Block(<< <<cnot_01_23, 135>>, <<state_both_succ, 137>>, <<state_01_succ, 138>>,
                   <<state_23_succ, 139>>, <<post_cnot_state, 142>> >>,
                "CNOT_MIXED1", "CNOT_MIXED1",
                [st EXCEPT !.post_cnot_state = post_cnot_state], res)
    /\ UNCHANGED handed

\* lines 146-150
G1_zmeas ==
    /\ fn = "gate_teleport" /\ pc = "CNOT_MIXED1"
    /\ \E r \in 0..1 :
          LET povms_1 == Lifted(identity(2), identity(4))
              post_meas1_state == measure_povm(st.post_cnot_state, povms_1, r)
          IN Block(<< <<post_meas1_state, 150>> >>, "Z_MEASURED1", "Z_MEASURED1",
                   [st EXCEPT !.post_meas1_state = post_meas1_state],
                   [res EXCEPT !.res1 = r])
    /\ handed' = st.post_cnot_state

\* lines 154-161
G1_xmeas ==
    /\ fn = "gate_teleport" /\ pc = "Z_MEASURED1"
    /\ LET povms_2 == Lifted(identity(4), identity(2))
           hadamard_2 == Tensor(<<identity(4), hadamard_transform, identity(2)>>)
           post_meas1_state == Conj(hadamard_2, st.post_meas1_state)
       IN IF IsErr(post_meas1_state)
          THEN Block(<< <<post_meas1_state, 159>> >>, "", "", st, res) /\ UNCHANGED handed
          ELSE /\ \E r \in 0..1 :
                     LET post_meas2_state == measure_povm(post_meas1_state, povms_2, r)
                     IN Block(<< <<post_meas2_state, 161>> >>, "X_MEASURED1", "X_MEASURED1",
                              [st EXCEPT !.post_meas1_state = post_meas1_state,
                                         !.post_meas2_state = post_meas2_state],
                              [res EXCEPT !.res2 = r])
               /\ handed' = post_meas1_state

\* lines 164-176
G1_correct ==
    /\ fn = "gate_teleport" /\ pc = "X_MEASURED1"
    /\ LET post_meas_state == Ptrace(st.post_meas2_state, <<0, 3>>)
           x_gate == Tensor(<<identity(2), sigmax>>)
           z_gate == Tensor(<<sigmaz, identity(2)>>)
           final_state == teleport_correct(res.res1, res.res2, x_gate, z_gate, post_meas_state)
       IN Block(<< <<post_meas_state, 164>>, <<final_state, 170>> >>,
                "CORRECTED1", "CORRECTED1",
                [st EXCEPT !.post_meas_state = post_meas_state,
                           !.final_state = final_state], res)
    /\ UNCHANGED handed

\* lines 181-182
G2_init ==
    /\ fn = "gate_teleport" /\ pc = "CORRECTED1"
    /\ LET final_state == Conj(swap, st.final_state)
           init_state == Tensor(<<final_state, st.bell_dm_2, zero_dm("T2")>>)
       IN Block(<< <<final_state, 181>>, <<init_state, 182>> >>, "INIT2", "INIT2",
                [st EXCEPT !.final_state = final_state, !.init_state = init_state], res)
    /\ UNCHANGED handed

\* lines 184-197
G2_cnot ==
    /\ fn = "gate_teleport" /\ pc = "INIT2"
    /\ LET init_state == st.init_state
           cnot_12 == Tensor(<<identity(2), cnot, identity(4)>>)
           cnot_34 == Tensor(<<identity(8), cnot>>)
           cnot_12_34 == GMul(cnot_12, cnot_34)
           state_both_succ == Conj(cnot_12_34, init_state)
           state_12_succ == Tensor(<<Ptrace(Conj(cnot_12, init_state), <<0, 1, 2>>), mixed_pair>>)
           state_34_first == Tensor(<<mixed_pair, Ptrace(Conj(cnot_34, init_state), <<0, 3, 4>>)>>)
           swap_01 == Tensor(<<swap, identity(8)>>)
           swap_12 == Tensor(<<identity(2), swap, identity(2)>>)
           state_34_succ == Conj(GMul(swap_01, swap_12), state_34_first)
           state_both_fail == Tensor(<<Ptrace(init_state, <<0>>), mixed_pair, mixed_pair>>)
           post_cnot_state == teleport_mixture(args.cnot_fid, state_both_succ, state_12_succ,
                                               state_34_succ, state_both_fail)
       IN Block(<< <<cnot_12_34, 186>>, <<state_both_succ, 188>>, <<state_12_succ, 189>>,
                   <<state_34_first, 190>>, <<state_34_succ, 194>>, <<state_both_fail, 195>>,
                   <<post_cnot_state, 197>> >>,
                "CNOT_MIXED2", "CNOT_MIXED2",
                [st EXCEPT !.post_cnot_state = post_cnot_state], res)
    /\ UNCHANGED handed

\* lines 201-205
G2_zmeas ==
    /\ fn = "gate_teleport" /\ pc = "CNOT_MIXED2"
    /\ \E r \in 0..1 :
          LET povms_2 == Lifted(identity(4), identity(4))
              post_meas2_state == measure_povm(st.post_cnot_state, povms_2, r)
          IN Block(<< <<post_meas2_state, 205>> >>, "Z_MEASURED2", "Z_MEASURED2",
                   [st EXCEPT !.post_meas2_state = post_meas2_state],
                   [res EXCEPT !.res2 = r])
    /\ handed' = st.post_cnot_state

\* lines 209-216: the Hadamard-conjugated state is bound to post_meas1_state,
\* the measurement is given post_meas2_state
G2_xmeas ==
    /\ fn = "gate_teleport" /\ pc = "Z_MEASURED2"
    /\ LET povms_3 == Lifted(identity(4), identity(2))
           hadamard_3 == Tensor(<<identity(8), hadamard_transform, identity(2)>>)
           post_meas1_state == Conj(hadamard_3, st.post_meas2_state)
       IN IF IsErr(post_meas1_state)
          THEN Block(<< <<post_meas1_state, 214>> >>, "", "", st, res) /\ UNCHANGED handed
          ELSE /\ \E r \in 0..1 :
                     LET post_meas2_state == measure_povm(st.post_meas2_state, povms_3, r)
                     IN Block(<< <<post_meas2_state, 216>> >>, "X_MEASURED2", "X_MEASURED2",
                              [st EXCEPT !.post_meas1_state = post_meas1_state,
                                         !.post_meas2_state = post_meas2_state],
                              [res EXCEPT !.res3 = r])
               /\ handed' = st.post_meas2_state

\* lines 219-233
G2_correct ==
    /\ fn = "gate_teleport" /\ pc = "X_MEASURED2"
    /\ LET post_meas_state == Ptrace(st.post_meas2_state, <<0, 1, 4>>)
           x_gate == Tensor(<<identity(4), sigmax>>)
           z_gate == Tensor(<<identity(2), sigmaz, identity(2)>>)
           ghz_state == teleport_correct(res.res2, res.res3, x_gate, z_gate, post_meas_state)
       IN Block(<< <<post_meas_state, 219>>, <<ghz_state, 233>> >>,
                "returned", "CORRECTED2",
                [st EXCEPT !.post_meas_state = post_meas_state], res)
    /\ UNCHANGED handed

Next ==
    \/ Call_bell_dm
    \/ Call_noisy_meas
    \/ Call_merge
    \/ Call_gate_teleport

Spec == Init /\ [][Next]_vars

(***************************************************************************)
(* The bodies of merge and gate_teleport taken block by block: a run       *)
(* starts at a block boundary with well-formed locals (states of the       *)
(* registers the comments of the source name, of trace 1) and goes on to   *)
(* the return or the first exception.                                      *)
(***************************************************************************)
Measured(s, name, r) == [s EXCEPT !.ops = Append(@, Applied("meas", name, "", r))]
Turned(s, name) == [s EXCEPT !.ops = Append(@, Applied("H", name, "", 0 - 1))]

MergeLocals(b, r) ==
    LET bds == [NoLocals EXCEPT !.bell_dm_1 = BdsFrame("q0", "q1"),
                                !.bell_dm_2 = BdsFrame("q2", "q3")]
        four == StateOf(<<"q0", "q1", "q2", "q3">>)
    IN CASE b = "body" -> bds
         [] b = "INIT" -> [bds EXCEPT !.init_state = four]
         [] b = "CNOT_APPLIED" -> [bds EXCEPT !.post_cnot_state = four]
         [] b = "MEASURED" -> [bds EXCEPT !.post_meas_state = Measured(four, "q1", r)]

TeleportLocals(b, ra, rb) ==
    LET bds == [NoLocals EXCEPT !.bell_dm_1 = BdsFrame("A1", "B1"),
                                !.bell_dm_2 = BdsFrame("A2", "B2")]
        four == StateOf(<<"C", "A1", "B1", "T1">>)
        five == StateOf(<<"T1", "C", "A2", "B2", "T2">>)
    IN CASE b = "body" -> bds
         [] b = "INIT1" -> [bds EXCEPT !.init_state = four]
         [] b = "CNOT_MIXED1" -> [bds EXCEPT !.post_cnot_state = four]
         [] b = "Z_MEASURED1" -> [bds EXCEPT !.post_meas1_state = Measured(four, "A1", ra)]
         [] b = "X_MEASURED1" ->
               [bds EXCEPT !.post_meas2_state =
                               Measured(Turned(Measured(four, "A1", ra), "B1"), "B1", rb)]
         [] b = "CORRECTED1" -> [bds EXCEPT !.final_state = StateOf(<<"C", "T1">>)]
         [] b = "INIT2" -> [bds EXCEPT !.init_state = five]
         [] b = "CNOT_MIXED2" -> [bds EXCEPT !.post_cnot_state = five]
         [] b = "Z_MEASURED2" -> [bds EXCEPT !.post_meas2_state = Measured(five, "A2", ra)]
         [] b = "X_MEASURED2" ->
               [bds EXCEPT !.post_meas2_state =
                               Measured(Turned(Measured(five, "A2", ra), "B2"), "B2", rb)]

MergeBoundaries == {"body", "INIT", "CNOT_APPLIED", "MEASURED"}
TeleportBoundaries == {"body", "INIT1", "CNOT_MIXED1", "Z_MEASURED1", "X_MEASURED1",
                       "CORRECTED1", "INIT2", "CNOT_MIXED2", "Z_MEASURED2", "X_MEASURED2"}
Outcome(known, r) == IF known THEN r ELSE 0 - 1

InitBlocks ==
    /\ NoRing
    /\ ret = None
    /\ at = 0
    /\ trail = << >>
    /\ handed = NoQ
    /\ \E cf, mf \in Fids : args = [NoArgs EXCEPT !.cnot_fid = cf, !.meas_fid = mf]
    /\ \/ /\ fn = "merge"
          /\ pc \in MergeBoundaries
          /\ \E r \in 0..1 :
                /\ res = [NoRes EXCEPT !.res = Outcome(pc = "MEASURED", r)]
                /\ st = MergeLocals(pc, r)
       \/ /\ fn = "gate_teleport"
          /\ pc \in TeleportBoundaries
          /\ \E ra, rb \in 0..1 :
                /\ res = [NoRes EXCEPT
                            !.res1 = Outcome(pc \in {"Z_MEASURED1", "X_MEASURED1"}, ra),
                            !.res2 = IF pc = "X_MEASURED1" THEN rb
                                     ELSE Outcome(pc \in {"Z_MEASURED2", "X_MEASURED2"}, ra),
                            !.res3 = Outcome(pc = "X_MEASURED2", rb)]
                /\ st = TeleportLocals(pc, ra, rb)

NextBlocks ==
    \/ Merge_init
    \/ Merge_cnot
    \/ Merge_measure
    \/ Merge_correct
    \/ G1_init
    \/ G1_cnot
    \/ G1_zmeas
    \/ G1_xmeas
    \/ G1_correct
    \/ G2_init
    \/ G2_cnot
    \/ G2_zmeas
    \/ G2_xmeas
    \/ G2_correct

SpecBlocks == InitBlocks /\ [][NextBlocks]_vars

(***************************************************************************)
(* ring_network (src/mpi_tests/sequential_ring.py): the routers Node_0 ..  *)
(* Node_(ring_size-1), the forwarding rule each gets for every other, and  *)
(* a packet passed from router to router by those rules.                   *)
(***************************************************************************)
MaxRing == 6

\* "Node_%d" % i, and int(name.replace("Node_", ""))
NodeName(i) == <<"Node_", i>>
NodeIndex(name) == name[2]
Abs(x) == IF x < 0 THEN 0 - x ELSE x

\* lines 29-31: router_names, in the order of range(ring_size)
router_names == [i \in 1..ring_size |-> NodeName(i - 1)]
Names == {router_names[i] : i \in 1..ring_size}

\* the next router chosen by the order of the indices alone, never across Node_0
bsm_name_by_index(node_index, dst_index) ==
    IF dst_index > node_index
    THEN NodeName((node_index + 1) % ring_size)
    ELSE NodeName((node_index - 1) % ring_size)

\* lines 84-94: the next router on the way from Node_(node_index) to Node_(dst_index)
bsm_name(node_index, dst_index) ==
    IF Abs(node_index - dst_index) < ring_size - Abs(node_index - dst_index)
    THEN IF dst_index > node_index
         THEN NodeName((node_index + 1) % ring_size)
         ELSE NodeName((node_index - 1) % ring_size)
    ELSE IF dst_index > node_index
         THEN NodeName((node_index - 1) % ring_size)
         ELSE NodeName((node_index + 1) % ring_size)

\* lines 79-97: the rules add_forwarding_rule(dst, bsm_name) has installed at each router
forwarding_rules ==
    [node \in Names |->
        [dst \in Names \ {node} |-> bsm_name(NodeIndex(node), NodeIndex(dst))]]

\* the routers as built (lines 27-38): no rule yet
InitRing ==
    /\ fn = "ring_network"
    /\ pc = "start"
    /\ args = NoArgs
    /\ ret = None
    /\ at = 0
    /\ st = NoLocals
    /\ res = NoRes
    /\ trail = << >>
    /\ handed = NoQ
    /\ ring_size \in 2..MaxRing
    /\ forwarding = [node \in Names |-> << >>]
    /\ packet = NoPacket

RulesInstalled == \A node \in DOMAIN forwarding : DOMAIN forwarding[node] = Names \ {node}

\* lines 79-97
Ring_forwarding ==
    /\ \A node \in DOMAIN forwarding : DOMAIN forwarding[node] = {}
    /\ forwarding' = forwarding_rules
    /\ UNCHANGED <<callvars, ring_size, packet>>

Arrived == packet # NoPacket /\ Last(packet.path) = packet.dst

\* lines 101-111: the app of a router asks for one of the others; the request leaves
\* from the asking router
Ring_send ==
    /\ RulesInstalled
    /\ packet = NoPacket \/ Arrived
    /\ \E src, dst \in Names :
          /\ src # dst
          /\ packet' = [dst |-> dst, path |-> <<src>>]
    /\ UNCHANGED <<callvars, ring_size, forwarding>>

\* the router holding the packet passes it to the router its rule for dst names; a
\* packet is passed on at most ring_size times
Ring_forward ==
    /\ packet # NoPacket /\ ~Arrived
    /\ Len(packet.path) <= ring_size
    /\ Last(packet.path) \in DOMAIN forwarding
    /\ packet.dst \in DOMAIN forwarding[Last(packet.path)]
    /\ packet' = [packet EXCEPT !.path = Append(@, forwarding[Last(@)][packet.dst])]
    /\ UNCHANGED <<callvars, ring_size, forwarding>>

NextRing ==
    \/ Ring_forwarding
    \/ Ring_send
    \/ Ring_forward

SpecRing == InitRing /\ [][NextRing]_vars

(***************************************************************************)
(* Properties                                                              *)
(***************************************************************************)
Ended == pc \in {"returned", "raised"}
\* the position pc was reached by a step of this run
Stepped(b) == pc = b /\ trail # << >> /\ Last(trail) = b

PerfectOn(bell) == [i \in 1..4 |-> IF i = bell + 1 THEN ProbDen ELSE 0]
InRange(f) == f \in Fids

\* C1: merge on bds1 = bds2 = pure Phi+ (identity index order) with cnot_fid = meas_fid = 1
\* returns, for every outcome, the 3-qubit GHZ state: in particular it returns a trace-1
\* operator on the three unmeasured qubits 0, 2, 3.
C1_DirectMergePerfect ==
    (fn = "merge" /\ Ended /\ args.state1 = PerfectOn(0) /\ args.state2 = PerfectOn(0)
        /\ args.cnot_fid = FidDen /\ args.meas_fid = FidDen)
    => (pc = "returned" /\ ret.kind = "state" /\ ret.q = <<"q0", "q2", "q3">>
           /\ ret.tr = TrUnit)

\* C2: gate_teleport on two inputs pure on the designated Bell state with cnot_fid =
\* meas_fid = 1 returns, for every outcome tuple, the ideal 3-qubit GHZ state: in
\* particular it returns a trace-1 operator on three qubits.
C2_TeleportedMergePerfect ==
    (fn = "gate_teleport" /\ Ended /\ args.state1 = args.state2
        /\ args.state1 \in {PerfectOn(0), PerfectOn(2)}
        /\ args.cnot_fid = FidDen /\ args.meas_fid = FidDen)
    => (pc = "returned" /\ ret.kind = "state" /\ Width(ret) = 3 /\ ret.tr = TrUnit)

MergeSteps == <<"INIT", "CNOT_APPLIED", "MEASURED", "CORRECTED">>

\* C3: for each outcome res, merge passes through INIT, CNOT_APPLIED, MEASURED, reaches
\* CORRECTED and returns an operator on exactly 3 qubits: qubit 1 is gone, qubits 0, 2, 3
\* remain.
C3_MergeReturnsThreeQubits ==
    (fn = "merge" /\ Ended)
    => (/\ pc = "returned"
        /\ trail = SubSeq(MergeSteps, Len(MergeSteps) - Len(trail) + 1, Len(MergeSteps))
        /\ ret.kind = "state"
        /\ ret.q = <<"q0", "q2", "q3">>)

BoundLocals == {n \in DOMAIN st : st[n].kind = "state"}

\* C4: in gate_teleport no operator is applied to a state of another width, no state
\* exceeds 5 qubits, and every run reaches round 2's CORRECTED and returns an operator on
\* exactly 3 qubits: the carrier and the two surviving targets.
C4_TeleportWidths ==
    fn = "gate_teleport"
    => (/\ \A n \in BoundLocals : Width(st[n]) <= 5
        /\ Ended => (/\ pc = "returned"
                     /\ Last(trail) = "CORRECTED2"
                     /\ ret.kind = "state"
                     /\ ret.q = <<"T1", "C", "T2">>))

\* C5: a call of merge or gate_teleport with cnot_fid or meas_fid outside [0,1] ends in
\* ParameterOutOfRange, one with a probability vector that does not sum to 1 ends in
\* UnnormalizedState; no operator is returned.
C5_FailFast ==
    (fn \in {"merge", "gate_teleport"} /\ Ended)
    => (/\ (~InRange(args.cnot_fid) \/ ~InRange(args.meas_fid))
              => (pc = "raised" /\ ret.exc = "ParameterOutOfRange")
        /\ (InRange(args.cnot_fid) /\ InRange(args.meas_fid)
              /\ (SumVec(args.state1, 4) # ProbDen \/ SumVec(args.state2, 4) # ProbDen))
              => (pc = "raised" /\ ret.exc = "UnnormalizedState"))

\* C6: bell_dm(state, elem_order), elem_order a permutation of 0..3: each elem_order[i] is
\* encoded as a two-bit name of a Bell state, the result gives Bell state elem_order[i] the
\* population state[i], and the total population is the sum of state.
C6_BellDmPopulations ==
    (fn = "bell_dm" /\ Ended)
    => (/\ \A i \in 1..4 : Len(FormatB(args.elem_order[i])) = 2
        /\ pc = "returned"
        /\ ret.kind = "bds"
        /\ \A i \in 1..4 : ret.pop[args.elem_order[i]] = args.state1[i]
        /\ SumVec([i \in 1..4 |-> ret.pop[i - 1]], 4) = SumVec(args.state1, 4))

Diag(a, d) == [r \in 0..1 |-> [c \in 0..1 |-> IF r # c THEN 0 ELSE IF r = 0 THEN a ELSE d]]
\* real symmetric 2x2 operators to measure, entries in any common unit
Rho2 == {[r \in 0..1 |-> [c \in 0..1 |-> IF r # c THEN b ELSE IF r = 0 THEN a ELSE d]] :
            a \in 0..2, d \in 0..2, b \in (0 - 1)..1}

\* C7: for fid in [0,1], noisy_meas(fid) returns exactly M0 = fid|0><0| + (1-fid)|1><1| and
\* M1 = fid|1><1| + (1-fid)|0><0|: diagonal, entries non-negative, M0 + M1 the identity, so
\* that Tr(M0 rho) + Tr(M1 rho) = Tr(rho) for every measured rho.
C7_NoisyMeasPovm ==
    (fn = "noisy_meas" /\ pc = "returned" /\ InRange(args.meas_fid))
    => LET M == ret.povms
           fid == args.meas_fid
       IN /\ Len(M) = 2
          /\ M[1] = Diag(fid, FidDen - fid)
          /\ M[2] = Diag(FidDen - fid, fid)
          /\ \A k \in 1..2 : \A r, c \in 0..1 : M[k][r][c] >= 0
          /\ MatAdd(M[1], M[2]) = Diag(FidDen, FidDen)
          /\ \A rho \in Rho2 :
                MatTr(MatMul(M[1], rho)) + MatTr(MatMul(M[2], rho)) = FidDen * MatTr(rho)

\* C7 witness: noisy_meas has returned for a fidelity strictly between 0 and 1
C7_Witness ==
    fn = "noisy_meas" /\ pc = "returned" /\ args.meas_fid > 0 /\ args.meas_fid < FidDen

\* C8: in each round of gate_teleport the post-CNOT state is the mixture with weights
\* f^2, f(1-f), f(1-f), (1-f)^2 (f = cnot_fid); they sum to 1, so the post-CNOT state has
\* the trace of the round's initial state.
C8_MixtureWeights ==
    (fn = "gate_teleport" /\ (Stepped("CNOT_MIXED1") \/ Stepped("CNOT_MIXED2")))
    => LET f == args.cnot_fid
           w == teleport_weights(f)
       IN /\ w = <<f * f, f * (FidDen - f), f * (FidDen - f), (FidDen - f) * (FidDen - f)>>
          /\ w[1] + w[2] + w[3] + w[4] = TrUnit
          /\ st.post_cnot_state.tr = st.init_state.tr

\* the X-basis measurement of a round has been called (it returned, or raised)
XMeasCalled == \/ Stepped("X_MEASURED1") \/ Stepped("X_MEASURED2")
               \/ (pc = "raised" /\ at \in {161, 216})

\* C9: in both rounds the state handed to the second (X-basis) measurement is the
\* post-Z-measurement state after a Hadamard on the qubit about to be measured: its last
\* two operations are the Z-measurement, then that Hadamard.
C9_HadamardBeforeXMeas ==
    (fn = "gate_teleport" /\ XMeasCalled)
    => LET ops == handed.ops
       IN /\ Len(ops) >= 2
          /\ ops[Len(ops) - 1].g = "meas"
          /\ Last(ops).g = "H"
          /\ Last(ops).a \in {"B1", "B2"}

\* the feedforward gates for the outcomes (res_a, res_b): X on target, then Z on carrier
Feedforward(res_a, res_b, target, carrier) ==
    (IF res_a = 1 THEN <<Applied("X", target, "", 0 - 1)>> ELSE << >>)
    \o (IF res_b = 1 THEN <<Applied("Z", carrier, "", 0 - 1)>> ELSE << >>)

Neighbours(i) == {NodeName((i + 1) % ring_size), NodeName((i + ring_size - 1) % ring_size)}
RingHops(i, j) ==
    IF Abs(i - j) < ring_size - Abs(i - j) THEN Abs(i - j) ELSE ring_size - Abs(i - j)

\* C12: for every ring_size >= 2, every router Node_i and every destination Node_j with
\* j # i, the rule installed at Node_i for Node_j names a ring neighbour of Node_i; and a
\* packet that follows the rules for Node_j is, after every hop, one hop nearer: it has a
\* rule to follow wherever it has not arrived, it has visited no router twice, and the hops
\* it has made plus the shorter ring distance still ahead are min(|i-j|, ring_size-|i-j|),
\* so it arrives after exactly that many hops.
C12_RingForwarding ==
    (fn = "ring_network" /\ ring_size >= 2)
    => /\ \A node \in DOMAIN forwarding : \A dst \in DOMAIN forwarding[node] :
             /\ dst # node
             /\ forwarding[node][dst] \in Neighbours(NodeIndex(node))
       /\ packet # NoPacket
          => LET path == packet.path
                 i == NodeIndex(path[1])
                 j == NodeIndex(packet.dst)
                 here == Last(path)
             IN /\ \A k \in 1..Len(path) : path[k] \in Names
                /\ \A k, l \in 1..Len(path) : path[k] = path[l] => k = l
                /\ (Len(path) - 1) + RingHops(NodeIndex(here), j) = RingHops(i, j)
                /\ here = packet.dst <=> Len(path) - 1 = RingHops(i, j)
                /\ here # packet.dst => packet.dst \in DOMAIN forwarding[here]

\* C12 witness: on a ring of at least 5 routers a packet from Node_1 has arrived at the
\* last router in two hops, by way of Node_0
C12_Witness ==
    /\ fn = "ring_network" /\ ring_size >= 5
    /\ Arrived
    /\ packet.dst = NodeName(ring_size - 1)
    /\ packet.path = <<NodeName(1), NodeName(0), NodeName(ring_size - 1)>>

====
